---- MODULE Spec2Model ----
(***************************************************************************)
(* Compliance alert triage dashboard: the alert rule engine                *)
(* (services/alertGenerator.ts), the quote fetcher (services/alphaVantage) *)
(* and the alert store, refresh routine and detail modal (App.tsx,         *)
(* components/AlertDetailModal.tsx).                                       *)
(*                                                                         *)
(* Numbers: volumes are shares, prices are cents, changePercent is in      *)
(* hundredths of a percent (4.00% is 400).  The engine's floating point    *)
(* comparisons are computed exactly, by cross-multiplication.              *)
(***************************************************************************)
EXTENDS Integers, Sequences, FiniteSets, TLC

VARIABLES
    \* ---- App.tsx state (useState / useRef)
    apiKey,            \* App.tsx:18
    alerts,            \* App.tsx:21  the alert store
    isUsingRealData,   \* App.tsx:22
    isRefreshing,      \* App.tsx:24
    selectedAlert,     \* App.tsx:26  the alert object handed to the modal
    previousDataRef,   \* App.tsx:33
    intradayDataRef,   \* App.tsx:34
    intervalKey,       \* App.tsx:111 the key of the effect that owns the setInterval
    cycles,            \* the executions of fetchRealData in flight
    budget,            \* executions of fetchRealData that may still start in this behaviour
    \* ---- AlertDetailModal.tsx state
    notes,             \* AlertDetailModal.tsx:13
    isLoading,         \* AlertDetailModal.tsx:14
    pending,           \* handleAction calls suspended at the 800 ms await
    closeTimers,       \* AlertDetailModal.tsx:40 number of setTimeout(onClose, 500) armed
    actionsLeft,       \* handleAction calls that may still be made in this behaviour
    \* ---- the environment
    now,               \* Date.now(), a logical clock
    hour,              \* new Date().getHours()
    \* ---- quote provider traffic of one refresh cycle, in seconds
    rateClock,
    requestLog,
    ratePc,
    rateI,
    rateGot,
    \* ---- an isolated call of generateAlertsFromStockData
    engStock,
    engPrev,
    engIntraday,
    engHour,
    engNow,
    engOut,
    engDone,
    \* ---- an isolated call of fetchIntradayData
    histPayload,       \* what the provider answered
    histOut,
    histDone,
    \* ---- an isolated evaluation of the dashboard metrics
    metAlerts,
    metOut,
    metDone,
    \* ---- an isolated computation of filteredAndSortedAlerts
    viewAlerts,        \* App.tsx:21  the store the view is computed from
    viewSettings,      \* App.tsx:27-31 search query, two filters, sort key and order
    viewOut,
    viewDone

appVars == <<apiKey, alerts, isUsingRealData, isRefreshing, selectedAlert,
             previousDataRef, intradayDataRef, intervalKey, cycles, budget,
             notes, isLoading, pending, closeTimers, actionsLeft, now, hour>>
rateVars == <<rateClock, requestLog, ratePc, rateI, rateGot>>
engVars == <<engStock, engPrev, engIntraday, engHour, engNow, engOut, engDone>>
histVars == <<histPayload, histOut, histDone>>
metVars == <<metAlerts, metOut, metDone>>
viewVars == <<viewAlerts, viewSettings, viewOut, viewDone>>
pureVars == <<histVars, metVars, viewVars>>
vars == <<appVars, rateVars, engVars, pureVars>>

(***************************************************************************)
(* Bounds of the model                                                     *)
(***************************************************************************)
MaxHist == 3        \* longest interval history drawn for an isolated engine call
NumSymbols == 2     \* the refresh routine of Spec watches the first NumSymbols symbols
MaxCycles == 2      \* executions of fetchRealData started in one behaviour of SpecRefresh
MaxActions == 2     \* handleAction calls in one behaviour of SpecWorkflow
MaxLatency == 2     \* longest answer time of the quote provider, in seconds, in SpecRate
MaxMetAlerts == 3   \* most alerts in a collection the metrics are evaluated on
MaxSeries == 12     \* most points in a time series the quote provider answers with
MaxBatch == 2       \* most snapshots handed to the engine in one call of SpecBatch
MaxViewAlerts == 3  \* most alerts in a store the view is computed from
AppCycles == 2      \* executions of fetchRealData started in one behaviour of Spec
AppActions == 1     \* handleAction calls in one behaviour of Spec

(***************************************************************************)
(* Data                                                                    *)
(***************************************************************************)
STOCK_SYMBOLS == <<"AAPL", "TSLA", "MSFT", "GOOGL", "AMZN">>

Symbols == {STOCK_SYMBOLS[i] : i \in 1..Len(STOCK_SYMBOLS)}

\* Map.get(symbol) of a symbol the map does not hold: undefined
NoSnapshot == [symbol |-> "", price |-> 0, volume |-> 0, changePercent |-> 0, timestamp |-> 0]

Abs(x) == IF x < 0 THEN -x ELSE x

RECURSIVE SumVolumes(_)
SumVolumes(points) ==
    IF points = <<>> THEN 0
    ELSE points[1].volume + SumVolumes(Tail(points))

(***************************************************************************)
(* services/alertGenerator.ts                                              *)
(***************************************************************************)

\* createAlert: the category is forced into the five-value taxonomy
AlertTypes == {"Market Manipulation", "Wash Trading", "Spoofing",
               "Insider Trading", "Position Limit Breach"}

\* a slip: the seeding event is stamped with the clock
createAlertEventClockStamped(type, severity, stockData, rule, nowMs) ==
    [ id |-> <<nowMs, stockData.symbol>>,
      type |-> IF type \in AlertTypes THEN type ELSE "Market Manipulation",
      severity |-> severity,
      status |-> "New",
      symbol |-> stockData.symbol,
      timestamp |-> stockData.timestamp,
      rule |-> rule,
      investigationNotes |-> "",
      timeline |-> << [ action |-> "Alert Created",
                        user |-> "Automated System",
                        timestamp |-> nowMs,
                        notes |-> "detected" ] >> ]

\* a slip: the alert is stamped with the clock, not with the snapshot's time
createAlertClockStamped(type, severity, stockData, rule, nowMs) ==
    [ id |-> <<nowMs, stockData.symbol>>,
      type |-> IF type \in AlertTypes THEN type ELSE "Market Manipulation",
      severity |-> severity,
      status |-> "New",
      symbol |-> stockData.symbol,
      timestamp |-> nowMs,
      rule |-> rule,
      investigationNotes |-> "",
      timeline |-> << [ action |-> "Alert Created",
                        user |-> "Automated System",
                        timestamp |-> stockData.timestamp,
                        notes |-> "detected" ] >> ]

\* a slip: the category is taken as the rule names it
createAlertKeepType(type, severity, stockData, rule, nowMs) ==
    [ id |-> <<nowMs, stockData.symbol>>,
      type |-> type,
      severity |-> severity,
      status |-> "New",
      symbol |-> stockData.symbol,
      timestamp |-> stockData.timestamp,
      rule |-> rule,
      investigationNotes |-> "",
      timeline |-> << [ action |-> "Alert Created",
                        user |-> "Automated System",
                        timestamp |-> stockData.timestamp,
                        notes |-> "detected" ] >> ]

\* The alert object.  `rule` stands for the description text, which is a
\* different sentence for each of the four rules; the trader profile is a
\* function of the symbol and is carried as the symbol.
createAlert(type, severity, stockData, rule, nowMs) ==
    [ id |-> <<nowMs, stockData.symbol>>,
      type |-> IF type \in AlertTypes THEN type ELSE "Market Manipulation",
      severity |-> severity,
      status |-> "New",
      symbol |-> stockData.symbol,
      timestamp |-> stockData.timestamp,
      rule |-> rule,
      investigationNotes |-> "",
      timeline |-> << [ action |-> "Alert Created",
                        user |-> "Automated System",
                        timestamp |-> stockData.timestamp,
                        notes |-> "detected" ] >> ]

\* averageVolume as the fraction num/den: the mean of the history volumes,
\* or the snapshot's own volume when there is no history
AverageVolumeNum(current, intraday) ==
    IF Len(intraday) > 0 THEN SumVolumes(intraday) ELSE current.volume

AverageVolumeDen(intraday) ==
    IF Len(intraday) > 0 THEN Len(intraday) ELSE 1

\* a slip: the severity test takes the absolute value too
MomentumAlertsAbsSeverity(current, intraday, nowMs) ==
    IF Len(intraday) >= 2
    THEN LET recent == intraday[Len(intraday)]
             prior == intraday[Len(intraday) - 1]
             diff100 == (recent.price - prior.price) * 100
         IN  IF Abs(diff100) > 5 * prior.price
             THEN << createAlert("Market Manipulation", "Critical",
                                 current, "Momentum", nowMs) >>
             ELSE <<>>
    ELSE <<>>

\* Rule 1, lines 36-51: price movement between the last two history points
MomentumAlerts(current, intraday, nowMs) ==
    IF Len(intraday) >= 2
    THEN LET recent == intraday[Len(intraday)]
             prior == intraday[Len(intraday) - 1]
             \* priceChangePercent = diff / prior.price * 100, prior.price > 0
             diff100 == (recent.price - prior.price) * 100
         IN  IF Abs(diff100) > 5 * prior.price
             THEN << createAlert("Market Manipulation",
                                 IF diff100 > 5 * prior.price THEN "Critical" ELSE "High",
                                 current, "Momentum", nowMs) >>
             ELSE <<>>
    ELSE <<>>

\* a slip: the factor two on the wrong side of the comparison
VolumeFiresHalfAverage(current, intraday) ==
    LET num == AverageVolumeNum(current, intraday)
        den == AverageVolumeDen(intraday)
    IN  /\ num # 0
        /\ current.volume * den * 2 > num

\* Rule 2, lines 53-63: volume against twice the average
VolumeFires(current, intraday) ==
    LET num == AverageVolumeNum(current, intraday)
        den == AverageVolumeDen(intraday)
    IN  /\ num # 0                           \* `averageVolume &&`
        /\ current.volume * den > num * 2

\* a slip: >= for > at the severity thresholds
VolumeSeverityInclusive(current, intraday) ==
    LET num == AverageVolumeNum(current, intraday)
        den == AverageVolumeDen(intraday)
        excess == current.volume * den - num
    IN  IF excess * 100 >= 300 * num THEN "Critical"
        ELSE IF excess * 100 >= 200 * num THEN "High"
        ELSE "Medium"

VolumeSeverity(current, intraday) ==
    LET num == AverageVolumeNum(current, intraday)
        den == AverageVolumeDen(intraday)
        \* volumeIncrease = excess / num * 100
        excess == current.volume * den - num
    IN  IF excess * 100 > 300 * num THEN "Critical"
        ELSE IF excess * 100 > 200 * num THEN "High"
        ELSE "Medium"

VolumeAlerts(current, intraday, nowMs) ==
    IF VolumeFires(current, intraday)
    THEN << createAlert("Unusual Activity", VolumeSeverity(current, intraday),
                        current, "Volume", nowMs) >>
    ELSE <<>>

\* a slip: the market close taken as hour > 16
AfterHoursAlertsLateClose(current, hr, nowMs) ==
    LET isAfterHours == hr < 9 \/ hr > 16
    IN  IF isAfterHours /\ current.volume > 1000000
        THEN << createAlert("Suspicious Trading Pattern", "High",
                            current, "AfterHours", nowMs) >>
        ELSE <<>>

\* Rule 3, lines 65-76: large volume outside market hours
AfterHoursAlerts(current, hr, nowMs) ==
    LET isAfterHours == hr < 9 \/ hr >= 16
    IN  IF isAfterHours /\ current.volume > 1000000
        THEN << createAlert("Suspicious Trading Pattern", "High",
                            current, "AfterHours", nowMs) >>
        ELSE <<>>

\* a slip: the test for a previous snapshot left out
RapidAlertsNoPrevious(current, previous, nowMs) ==
    IF Abs(current.changePercent) > 300
    THEN << createAlert("Market Manipulation",
                        IF Abs(current.changePercent) > 500 THEN "Critical" ELSE "High",
                        current, "Rapid", nowMs) >>
    ELSE <<>>

\* Rule 4, lines 78-87: change against the previous close, with a previous snapshot
RapidAlerts(current, previous, nowMs) ==
    IF previous # NoSnapshot /\ Abs(current.changePercent) > 300
    THEN << createAlert("Market Manipulation",
                        IF Abs(current.changePercent) > 500 THEN "Critical" ELSE "High",
                        current, "Rapid", nowMs) >>
    ELSE <<>>

\* a slip: the four rules chained with else, the first that fires wins
AlertsForFirstMatch(current, previousData, intradayDataMap, hr, nowMs) ==
    LET previous == previousData[current.symbol]
        intraday == intradayDataMap[current.symbol]
        chain == << MomentumAlerts(current, intraday, nowMs),
                    VolumeAlerts(current, intraday, nowMs),
                    AfterHoursAlerts(current, hr, nowMs),
                    RapidAlerts(current, previous, nowMs) >>
        fired == {r \in 1..4 : chain[r] # <<>>}
    IN  IF fired = {} THEN <<>>
        ELSE chain[CHOOSE r \in fired : \A q \in fired : r <= q]

\* The body of stockData.forEach for one snapshot
AlertsFor(current, previousData, intradayDataMap, hr, nowMs) ==
    LET previous == previousData[current.symbol]
        intraday == intradayDataMap[current.symbol]
    IN  MomentumAlerts(current, intraday, nowMs)
        \o VolumeAlerts(current, intraday, nowMs)
        \o AfterHoursAlerts(current, hr, nowMs)
        \o RapidAlerts(current, previous, nowMs)

RECURSIVE generateAlertsFromStockData(_, _, _, _, _)
generateAlertsFromStockData(stockData, previousData, intradayDataMap, hr, nowMs) ==
    IF stockData = <<>> THEN <<>>
    ELSE AlertsFor(stockData[1], previousData, intradayDataMap, hr, nowMs)
         \o generateAlertsFromStockData(Tail(stockData), previousData,
                                        intradayDataMap, hr, nowMs)

(***************************************************************************)
(* An isolated call of generateAlertsFromStockData, its arguments drawn    *)
(* from bounded sets that straddle every threshold of the four rules       *)
(***************************************************************************)
EngVolumes == {0, 1000000, 1000001, 1800000, 1800001, 2700000, 2700001,
               3000000, 3600000, 3600001}
EngChanges == {-501, -301, 300, 301, 500, 501}
EngHours == {8, 9, 15, 16}
HistPrices == {9499, 10000, 10500, 10501}
HistVolumes == {0, 900000}
HistPoints == [price : HistPrices, volume : HistVolumes]

Histories == UNION {[1..n -> HistPoints] : n \in 0..MaxHist}

EngSnapshots ==
    {[symbol |-> "AAPL", price |-> 10000, volume |-> v, changePercent |-> c, timestamp |-> 1] :
        v \in EngVolumes, c \in EngChanges}

\* what the map held before: some earlier snapshot of the symbol, or nothing
EarlierSnapshot(sym) ==
    [symbol |-> sym, price |-> 10000, volume |-> 0, changePercent |-> 0, timestamp |-> 0]

EmptyPrevious == [s \in Symbols |-> NoSnapshot]
EmptyIntraday == [s \in Symbols |-> <<>>]

AppIdle ==
    /\ apiKey = ""
    /\ alerts = <<>>
    /\ isUsingRealData = FALSE
    /\ isRefreshing = FALSE
    /\ selectedAlert = <<>>
    /\ previousDataRef = EmptyPrevious
    /\ intradayDataRef = EmptyIntraday
    /\ intervalKey = ""
    /\ cycles = <<>>
    /\ budget = 0
    /\ notes = ""
    /\ isLoading = FALSE
    /\ pending = <<>>
    /\ closeTimers = 0
    /\ actionsLeft = 0
    /\ now = 0
    /\ hour = 0

RateIdle ==
    /\ rateClock = 0
    /\ requestLog = <<>>
    /\ ratePc = "idle"
    /\ rateI = 0
    /\ rateGot = 0

EngIdle ==
    /\ engStock = <<>>
    /\ engPrev = EmptyPrevious
    /\ engIntraday = EmptyIntraday
    /\ engHour = 0
    /\ engNow = 0
    /\ engOut = <<>>
    /\ engDone = FALSE

HistIdle ==
    /\ histPayload = [kind |-> "none", series |-> <<>>]
    /\ histOut = <<>>
    /\ histDone = FALSE

MetIdle ==
    /\ metAlerts = <<>>
    /\ metOut = [totalAlerts |-> 0, pendingReview |-> 0,
                 falsePositiveRate |-> <<>>, avgInvestigationTime |-> <<>>]
    /\ metDone = FALSE

\* the settings of the first render, App.tsx:27-31
DefaultSettings ==
    [searchQuery |-> <<>>, severityFilter |-> "All", statusFilter |-> "All",
     sortBy |-> "time", sortOrder |-> "desc"]

ViewIdle ==
    /\ viewAlerts = <<>>
    /\ viewSettings = DefaultSettings
    /\ viewOut = <<>>
    /\ viewDone = FALSE

PureIdle == HistIdle /\ MetIdle /\ ViewIdle

EngInit ==
    /\ AppIdle
    /\ RateIdle
    /\ PureIdle
    /\ engStock = <<>>
    /\ \E hasPrev \in BOOLEAN :
          engPrev = [EmptyPrevious EXCEPT !["AAPL"] =
                        IF hasPrev THEN EarlierSnapshot("AAPL") ELSE NoSnapshot]
    /\ \E h \in Histories : engIntraday = [EmptyIntraday EXCEPT !["AAPL"] = h]
    /\ engHour \in EngHours
    /\ engNow = 2        \* the call comes after the snapshot was taken
    /\ engOut = <<>>
    /\ engDone = FALSE

EngineCall ==
    /\ ~engDone
    /\ \E s \in EngSnapshots :
          /\ engStock' = <<s>>
          /\ engOut' = generateAlertsFromStockData(<<s>>, engPrev, engIntraday, engHour, engNow)
    /\ engDone' = TRUE
    /\ UNCHANGED <<appVars, rateVars, pureVars, engPrev, engIntraday, engHour, engNow>>

EngNext == EngineCall

SpecEngine == EngInit /\ [][EngNext]_vars

\* the alerts of one rule that a call returned for a symbol
RuleAlerts(out, sym, rule) ==
    {i \in 1..Len(out) : out[i].symbol = sym /\ out[i].rule = rule}

SeverityOf(out, sym, rule) ==
    out[CHOOSE i \in RuleAlerts(out, sym, rule) : TRUE].severity

(***************************************************************************)
(* The alert store, the refresh routine and the detail modal               *)
(***************************************************************************)
Keys == {"K1"}
NoteTexts == {"", "reviewed"}
AppHours == {12, 20}

\* the symbols the refresh routine asks for
WatchList == SubSeq(STOCK_SYMBOLS, 1, NumSymbols)

\* mockData.ts generateMockAlerts: the placeholder alerts, of varied status,
\* each with a timeline that fits its status, with identifiers of their own
MockAlert(n, status, steps) ==
    [ id |-> <<0, n>>,
      type |-> "Wash Trading",
      severity |-> "Medium",
      status |-> status,
      symbol |-> n,
      timestamp |-> 0,
      rule |-> "Mock",
      investigationNotes |-> "",
      timeline |-> [k \in 1..Len(steps) |->
                      [ action |-> steps[k],
                        user |-> IF k = 1 THEN "Automated System" ELSE "Compliance Officer",
                        timestamp |-> 0,
                        notes |-> "" ]] ]

generateMockAlerts ==
    << MockAlert("MOCK-1", "New", <<"Alert Created">>),
       MockAlert("MOCK-2", "Resolved", <<"Alert Created", "Investigation Started", "Resolved">>) >>

\* what the quote provider answers for a symbol: fetchStockQuote's StockData
QuoteData(sym, t) ==
    [symbol |-> sym, price |-> 10000, volume |-> 2000000, changePercent |-> 400, timestamp |-> t]

\* what fetchIntradayData returns: nothing, or a series rising by more than 5%
IntradayChoices ==
    { <<>>,
      << [price |-> 10000, volume |-> 900000], [price |-> 10501, volume |-> 900000] >> }

\* Array.prototype.sort by timestamp, newest first; the sort is stable
RECURSIVE InsertByTime(_, _)
InsertByTime(sorted, a) ==
    IF sorted = <<>> THEN <<a>>
    ELSE IF Head(sorted).timestamp >= a.timestamp
         THEN <<Head(sorted)>> \o InsertByTime(Tail(sorted), a)
         ELSE <<a>> \o sorted

RECURSIVE SortByTimeDesc(_)
SortByTimeDesc(list) ==
    IF list = <<>> THEN <<>>
    ELSE InsertByTime(SortByTimeDesc(SubSeq(list, 1, Len(list) - 1)), list[Len(list)])

RECURSIVE FilterNew(_, _)
FilterNew(newAlerts, existingIds) ==
    IF newAlerts = <<>> THEN <<>>
    ELSE (IF Head(newAlerts).id \in existingIds THEN <<>> ELSE <<Head(newAlerts)>>)
         \o FilterNew(Tail(newAlerts), existingIds)

\* a slip: the new batch replaces the store
MergeAlertsReplace(prev, newAlerts) ==
    SortByTimeDesc(newAlerts)

\* fetchRealData, the setAlerts updater of lines 82-88
MergeAlerts(prev, newAlerts) ==
    LET existingIds == {prev[i].id : i \in 1..Len(prev)}
        newUniqueAlerts == FilterNew(newAlerts, existingIds)
    IN  SortByTimeDesc(prev \o newUniqueAlerts)

\* fetchRealData, lines 77-79
UpdatePrevious(previousData, stockData) ==
    [s \in Symbols |->
        IF \E j \in 1..Len(stockData) : stockData[j].symbol = s
        THEN stockData[CHOOSE j \in 1..Len(stockData) : stockData[j].symbol = s]
        ELSE previousData[s]]

\* a slip: the update spreads the notes and the timeline but not the status
handleUpdateAlertKeepStatus(prev, alertId, status, investigationNotes, timeline) ==
    [i \in 1..Len(prev) |->
        IF prev[i].id = alertId
        THEN [prev[i] EXCEPT !.investigationNotes = investigationNotes,
                             !.timeline = timeline]
        ELSE prev[i]]

\* handleUpdateAlert with the updates handleAction passes
handleUpdateAlert(prev, alertId, status, investigationNotes, timeline) ==
    [i \in 1..Len(prev) |->
        IF prev[i].id = alertId
        THEN [prev[i] EXCEPT !.status = status,
                             !.investigationNotes = investigationNotes,
                             !.timeline = timeline]
        ELSE prev[i]]

\* the four buttons: <<newStatus, actionName>>
WorkflowActions ==
    { <<"In Review", "Start Investigation">>, <<"Escalated", "Escalate">>,
      <<"Dismissed", "Dismiss">>, <<"Resolved", "Mark Resolved">> }

\* AlertDetailModal.tsx:230-265: the button is rendered for this status of the alert prop
ButtonShown(status, newStatus) ==
    CASE newStatus = "In Review" -> status = "New"
      [] newStatus = "Escalated" -> status \notin {"Escalated", "Resolved", "Dismissed"}
      [] OTHER -> status \notin {"Resolved", "Dismissed"}

RemoveAt(seq, k) == SubSeq(seq, 1, k - 1) \o SubSeq(seq, k + 1, Len(seq))

\* a call fetchRealData() of the closure that holds `key`: nothing without a
\* key; otherwise the first quote request is sent and the call suspends.
\* `answers` logs, per request of the loop, whether fetchStockQuote returned
\* a snapshot.
CallFetchRealData(cs, key) ==
    IF key = "" THEN cs
    ELSE Append(cs, [key |-> key, pc |-> "quote", i |-> 1, results |-> <<>>,
                     answers |-> <<>>])

\* state after the first render and its effects, without a stored key
\* (placeholder alerts) or with one (the initial fetch is in flight)
Mounted(cycleBudget, actionBudget) ==
    /\ RateIdle
    /\ PureIdle
    /\ EngIdle
    /\ apiKey \in {"", "K1"}
    /\ alerts = IF apiKey = "" THEN generateMockAlerts ELSE <<>>
    /\ isUsingRealData = FALSE
    /\ isRefreshing = (apiKey # "")
    /\ selectedAlert = <<>>
    /\ previousDataRef = EmptyPrevious
    /\ intradayDataRef = EmptyIntraday
    /\ intervalKey = apiKey
    /\ cycles = CallFetchRealData(<<>>, apiKey)
    /\ budget = cycleBudget - Len(cycles)
    /\ notes = ""
    /\ isLoading = FALSE
    /\ pending = <<>>
    /\ closeTimers = 0
    /\ actionsLeft = actionBudget
    /\ now = 1
    /\ hour \in AppHours

Init == Mounted(AppCycles, AppActions)

modalVars == <<selectedAlert, notes, isLoading, pending, closeTimers, actionsLeft>>

\* SettingsModal handleSave (a key) or handleRemove (""): App.handleApiKeySet,
\* then the render with the new key and its two effects
handleApiKeySet(key) ==
    LET viaHandler == IF key # "" THEN CallFetchRealData(cycles, apiKey) ELSE cycles
        viaEffect == IF key # apiKey THEN CallFetchRealData(viaHandler, key) ELSE viaHandler
    IN  /\ Len(viaEffect) - Len(cycles) <= budget
        /\ apiKey' = key
        /\ cycles' = viaEffect
        /\ budget' = budget - (Len(viaEffect) - Len(cycles))
        /\ isRefreshing' = IF Len(viaEffect) > Len(cycles) THEN TRUE ELSE isRefreshing
        /\ intervalKey' = key
        /\ IF key = ""
           THEN /\ alerts' = generateMockAlerts
                /\ isUsingRealData' = FALSE
                /\ previousDataRef' = EmptyPrevious
                /\ intradayDataRef' = EmptyIntraday
           ELSE UNCHANGED <<alerts, isUsingRealData, previousDataRef, intradayDataRef>>
        /\ UNCHANGED <<modalVars, now, hour, rateVars, engVars, pureVars>>

ApiKeySet == \E key \in Keys \cup {""} : handleApiKeySet(key)

\* the setInterval callback of the auto-refresh effect
TimerTick ==
    /\ intervalKey # ""
    /\ budget > 0
    /\ cycles' = CallFetchRealData(cycles, intervalKey)
    /\ budget' = budget - 1
    /\ isRefreshing' = TRUE
    /\ UNCHANGED <<apiKey, alerts, isUsingRealData, previousDataRef, intradayDataRef,
                   intervalKey, modalVars, now, hour, rateVars, engVars, pureVars>>

\* the Refresh button, rendered when isUsingRealData and enabled when not isRefreshing
handleManualRefresh ==
    /\ isUsingRealData
    /\ ~isRefreshing
    /\ apiKey # ""
    /\ budget > 0
    /\ cycles' = CallFetchRealData(cycles, apiKey)
    /\ budget' = budget - 1
    /\ isRefreshing' = TRUE
    /\ UNCHANGED <<apiKey, alerts, isUsingRealData, previousDataRef, intradayDataRef,
                   intervalKey, modalVars, now, hour, rateVars, engVars, pureVars>>

\* a slip: a failed request empties the results gathered so far
QuoteResultsResetOnFailure(results, ok, sym, t) ==
    IF ok THEN Append(results, QuoteData(sym, t)) ELSE <<>>

\* fetchMultipleStocks, lines 191-194: `if (data) results.push(data)`
QuoteResults(results, ok, sym, t) ==
    IF ok THEN Append(results, QuoteData(sym, t)) ELSE results

\* a slip: the fallback leaves the store as it is
FallbackStoreKeep(prev) == prev

\* fetchRealData, lines 53-55: setAlerts(generateMockAlerts())
FallbackStore(prev) == generateMockAlerts

\* fetchStockQuote resolves for cycle k: a snapshot, or null (error payload,
\* rate-limit note, no quote, thrown error).  Before the last symbol the loop
\* waits its 12 s and sends the next request.  After the last symbol
\* fetchMultipleStocks returns and fetchRealData goes on: the fallback when
\* nothing came back, the interval-history request otherwise.
QuoteResponse(k) ==
    LET c == cycles[k] IN
    /\ c.pc = "quote"
    /\ \E ok \in BOOLEAN :
          LET results == QuoteResults(c.results, ok, WatchList[c.i], now)
              answers == Append(c.answers, ok)
          IN  IF c.i < Len(WatchList)
              THEN /\ cycles' = [cycles EXCEPT ![k] = [c EXCEPT !.i = c.i + 1,
                                                               !.results = results,
                                                               !.answers = answers]]
                   /\ now' = now + 1
                   /\ UNCHANGED <<alerts, isUsingRealData, isRefreshing>>
              ELSE IF Len(results) = 0
              THEN /\ cycles' = RemoveAt(cycles, k)
                   /\ alerts' = FallbackStore(alerts)
                   /\ isUsingRealData' = FALSE
                   /\ isRefreshing' = FALSE
                   /\ now' = now
              ELSE /\ cycles' = [cycles EXCEPT ![k] = [c EXCEPT !.pc = "intraday",
                                                               !.results = results,
                                                               !.answers = answers]]
                   /\ now' = now
                   /\ UNCHANGED <<alerts, isUsingRealData, isRefreshing>>
    /\ UNCHANGED <<apiKey, previousDataRef, intradayDataRef, intervalKey, budget,
                   modalVars, hour, rateVars, engVars, pureVars>>

\* a slip: the previous-snapshot map is updated before the engine reads it
CycleAlertsAfterUpdate(stockData, previousData, intradayDataMap, hr, nowMs) ==
    generateAlertsFromStockData(stockData, UpdatePrevious(previousData, stockData),
                                intradayDataMap, hr, nowMs)

\* fetchRealData, lines 70-74: the engine call on the two refs as they are
CycleAlerts(stockData, previousData, intradayDataMap, hr, nowMs) ==
    generateAlertsFromStockData(stockData, previousData, intradayDataMap, hr, nowMs)

\* a slip: an empty answer is stored like any other
StoreHistoryAlways(map, first, intraday) == [map EXCEPT ![first] = intraday]

\* fetchRealData, lines 64-66: the history is stored when it is not empty
StoreHistory(map, first, intraday) ==
    IF Len(intraday) > 0 THEN [map EXCEPT ![first] = intraday] ELSE map

\* fetchIntradayData resolves for cycle k; fetchRealData runs to its end
IntradayResponse(k) ==
    LET c == cycles[k] IN
    /\ c.pc = "intraday"
    /\ \E intraday \in IntradayChoices :
          LET first == c.results[1].symbol
              intradayMap == StoreHistory(intradayDataRef, first, intraday)
              newAlerts == CycleAlerts(c.results, previousDataRef, intradayMap, hour, now)
          IN  /\ intradayDataRef' = intradayMap
              /\ previousDataRef' = UpdatePrevious(previousDataRef, c.results)
              /\ alerts' = MergeAlerts(alerts, newAlerts)
    /\ isUsingRealData' = TRUE
    /\ isRefreshing' = FALSE
    /\ cycles' = RemoveAt(cycles, k)
    /\ UNCHANGED <<apiKey, intervalKey, budget, modalVars, now, hour, rateVars, engVars, pureVars>>

cycleVars == <<apiKey, isUsingRealData, isRefreshing, previousDataRef, intradayDataRef,
               intervalKey, cycles, budget>>

\* the unmounting of the modal: its pending handleAction calls live on
Unmounted(ps) == [j \in 1..Len(ps) |-> [ps[j] EXCEPT !.live = FALSE]]

\* a click on an alert card: setSelectedAlert(alert), the modal mounts
OpenModal(i) ==
    /\ selectedAlert = <<>>
    /\ selectedAlert' = <<alerts[i]>>
    /\ notes' = alerts[i].investigationNotes
    /\ isLoading' = FALSE
    /\ UNCHANGED <<alerts, cycleVars, pending, closeTimers, actionsLeft, now, hour, rateVars, engVars, pureVars>>

\* the X button or the overlay: onClose
CloseModal ==
    /\ selectedAlert # <<>>
    /\ selectedAlert' = <<>>
    /\ notes' = ""
    /\ isLoading' = FALSE
    /\ pending' = Unmounted(pending)
    /\ UNCHANGED <<alerts, cycleVars, closeTimers, actionsLeft, now, hour, rateVars, engVars, pureVars>>

\* the notes textarea.  Text typed while an action is in flight is read by
\* the next click only, so typing is taken between actions.
SetNotes(text) ==
    /\ selectedAlert # <<>>
    /\ ~isLoading
    /\ actionsLeft > 0
    /\ text # notes
    /\ notes' = text
    /\ UNCHANGED <<alerts, cycleVars, selectedAlert, isLoading, pending, closeTimers,
                   actionsLeft, now, hour, rateVars, engVars, pureVars>>

\* a click on an action button: handleAction up to its 800 ms await.  The
\* closure holds the alert prop and the notes of the render that was clicked.
handleActionStart(w) ==
    /\ selectedAlert # <<>>
    /\ ~isLoading
    /\ ButtonShown(selectedAlert[1].status, w[1])
    /\ actionsLeft > 0
    /\ actionsLeft' = actionsLeft - 1
    /\ isLoading' = TRUE
    /\ pending' = Append(pending, [alert |-> selectedAlert[1], notes |-> notes,
                                   newStatus |-> w[1], actionName |-> w[2],
                                   live |-> TRUE, timersAhead |-> closeTimers])
    /\ UNCHANGED <<alerts, cycleVars, selectedAlert, notes, closeTimers, now, hour,
                   rateVars, engVars, pureVars>>

\* a slip: the close timer armed for Resolved only
ArmCloseTimerResolvedOnly(timers, newStatus) ==
    IF newStatus = "Resolved" THEN timers + 1 ELSE timers

\* AlertDetailModal.tsx:39-41: setTimeout(onClose, 500) after Resolved or Dismissed
ArmCloseTimer(timers, newStatus) ==
    IF newStatus \in {"Resolved", "Dismissed"} THEN timers + 1 ELSE timers

\* handleAction after the await: the event, onUpdate, and the close timer.
\* A 500 ms close timer armed before the click fires before the 800 ms are over.
handleActionComplete ==
    /\ pending # <<>>
    /\ Head(pending).timersAhead = 0
    /\ LET p == Head(pending)
           timelineEvent == [ action |-> p.actionName, user |-> "Current User",
                              timestamp |-> now, notes |-> p.notes ]
       IN  /\ alerts' = handleUpdateAlert(alerts, p.alert.id, p.newStatus, p.notes,
                                          Append(p.alert.timeline, timelineEvent))
           /\ isLoading' = IF p.live THEN FALSE ELSE isLoading
           /\ closeTimers' = ArmCloseTimer(closeTimers, p.newStatus)
    /\ pending' = Tail(pending)
    /\ UNCHANGED <<cycleVars, selectedAlert, notes, actionsLeft, now, hour, rateVars, engVars, pureVars>>

\* setTimeout(onClose, 500) fires: setSelectedAlert(null)
CloseTimerFire ==
    /\ closeTimers > 0
    /\ closeTimers' = closeTimers - 1
    /\ selectedAlert' = <<>>
    /\ notes' = ""
    /\ isLoading' = FALSE
    /\ pending' = [j \in 1..Len(pending) |->
                     [pending[j] EXCEPT !.live = FALSE,
                                        !.timersAhead = IF @ > 0 THEN @ - 1 ELSE 0]]
    /\ UNCHANGED <<alerts, cycleVars, actionsLeft, now, hour, rateVars, engVars, pureVars>>

Next ==
    \/ ApiKeySet
    \/ TimerTick
    \/ handleManualRefresh
    \/ \E k \in 1..Len(cycles) : QuoteResponse(k)
    \/ \E k \in 1..Len(cycles) : IntradayResponse(k)
    \/ \E i \in 1..Len(alerts) : OpenModal(i)
    \/ CloseModal
    \/ \E text \in NoteTexts : SetNotes(text)
    \/ \E w \in WorkflowActions : handleActionStart(w)
    \/ handleActionComplete
    \/ CloseTimerFire

Spec == Init /\ [][Next]_vars

\* the refresh routine and its triggers alone, the modal never opened
InitRefresh == Mounted(MaxCycles, 0)

NextRefresh ==
    \/ ApiKeySet
    \/ TimerTick
    \/ handleManualRefresh
    \/ \E k \in 1..Len(cycles) : QuoteResponse(k)
    \/ \E k \in 1..Len(cycles) : IntradayResponse(k)

SpecRefresh == InitRefresh /\ [][NextRefresh]_vars

\* the snapshots a cycle can end with: in request order, any symbol may be missing
RECURSIVE ResultsFrom(_, _)
ResultsFrom(i, t) ==
    IF i > Len(WatchList) THEN {<<>>}
    ELSE LET rest == ResultsFrom(i + 1, t + 1)
         IN  rest \cup {<<QuoteData(WatchList[i], t)>> \o r : r \in rest}

\* the detail modal alone: the application was mounted with a stored key and
\* its first refresh cycle has ended with at least one snapshot; no refresh
\* is in flight
InitWorkflow ==
    /\ RateIdle
    /\ PureIdle
    /\ EngIdle
    /\ hour \in AppHours
    /\ apiKey = "K1"
    /\ intervalKey = "K1"
    /\ isUsingRealData = TRUE
    /\ isRefreshing = FALSE
    /\ now = Len(WatchList)
    /\ \E results \in ResultsFrom(1, 1) \ {<<>>}, intraday \in IntradayChoices :
          /\ intradayDataRef =
                IF Len(intraday) > 0
                THEN [EmptyIntraday EXCEPT ![results[1].symbol] = intraday]
                ELSE EmptyIntraday
          /\ previousDataRef = UpdatePrevious(EmptyPrevious, results)
          /\ alerts = MergeAlerts(<<>>,
                         generateAlertsFromStockData(results, EmptyPrevious,
                                                     intradayDataRef, hour, now))
    /\ cycles = <<>>
    /\ budget = 0
    /\ selectedAlert = <<>>
    /\ notes = ""
    /\ isLoading = FALSE
    /\ pending = <<>>
    /\ closeTimers = 0
    /\ actionsLeft = MaxActions

NextWorkflow ==
    \/ \E i \in 1..Len(alerts) : OpenModal(i)
    \/ CloseModal
    \/ \E text \in NoteTexts : SetNotes(text)
    \/ \E w \in WorkflowActions : handleActionStart(w)
    \/ handleActionComplete
    \/ CloseTimerFire

SpecWorkflow == InitWorkflow /\ [][NextWorkflow]_vars

(***************************************************************************)
(* The requests one refresh cycle sends to the quote provider, on a clock  *)
(* of seconds: fetchMultipleStocks over STOCK_SYMBOLS, then the            *)
(* fetchIntradayData call of fetchRealData                                 *)
(***************************************************************************)
QuoteDelaySeconds == 12    \* setTimeout(resolve, 12000)
RateLimit == 5             \* "5 API calls per minute"
RateWindowSeconds == 60

InitRate ==
    /\ AppIdle
    /\ EngIdle
    /\ RateIdle
    /\ PureIdle

\* fetchRealData calls fetchMultipleStocks: the first request goes out at once
RateStart ==
    /\ ratePc = "idle"
    /\ requestLog' = Append(requestLog, rateClock)
    /\ ratePc' = "quote"
    /\ rateI' = 1
    /\ UNCHANGED <<rateClock, rateGot, appVars, engVars, pureVars>>

\* fetchStockQuote resolves after some answer time, with a snapshot or null;
\* after the last symbol fetchRealData sends the interval-history request
\* unless no snapshot came back
RateQuoteResponse ==
    /\ ratePc = "quote"
    /\ \E latency \in 0..MaxLatency, ok \in BOOLEAN :
          LET got == IF ok THEN rateGot + 1 ELSE rateGot
              t == rateClock + latency
          IN  /\ rateClock' = t
              /\ rateGot' = got
              /\ IF rateI < Len(STOCK_SYMBOLS)
                 THEN /\ ratePc' = "delay"
                      /\ UNCHANGED requestLog
                 ELSE IF got = 0
                 THEN /\ ratePc' = "done"
                      /\ UNCHANGED requestLog
                 ELSE /\ ratePc' = "intraday"
                      /\ requestLog' = Append(requestLog, t)
    /\ UNCHANGED <<rateI, appVars, engVars, pureVars>>

\* the 12 s timer fires and the next quote request goes out
RateDelayDone ==
    /\ ratePc = "delay"
    /\ rateClock' = rateClock + QuoteDelaySeconds
    /\ requestLog' = Append(requestLog, rateClock')
    /\ rateI' = rateI + 1
    /\ ratePc' = "quote"
    /\ UNCHANGED <<rateGot, appVars, engVars, pureVars>>

\* fetchIntradayData resolves
RateIntradayResponse ==
    /\ ratePc = "intraday"
    /\ \E latency \in 0..MaxLatency : rateClock' = rateClock + latency
    /\ ratePc' = "done"
    /\ UNCHANGED <<requestLog, rateI, rateGot, appVars, engVars, pureVars>>

NextRate ==
    \/ RateStart
    \/ RateQuoteResponse
    \/ RateDelayDone
    \/ RateIntradayResponse

SpecRate == InitRate /\ [][NextRate]_vars

\* the requests sent in the window of RateWindowSeconds that opens with request j
InWindow(j) ==
    {k \in 1..Len(requestLog) :
        requestLog[j] <= requestLog[k] /\ requestLog[k] < requestLog[j] + RateWindowSeconds}

\* C6: at most 5 requests reach the quote provider in any rolling 60-second
\* window, counting the quote requests and the interval-history request.
C6_RateLimit ==
    \A j \in 1..Len(requestLog) : Cardinality(InWindow(j)) <= RateLimit

(***************************************************************************)
(* The store's and the workflow's claims                                   *)
(***************************************************************************)

\* C1: after any sequence of refresh cycles no two alerts in the store have
\* the same identifier, also when several rules fire for one symbol within
\* one engine call.
C1_UniqueIdentifiers ==
    \A i, j \in 1..Len(alerts) : i # j => alerts[i].id # alerts[j].id

\* a step in which a handleAction call applies its update to the store
UpdateStep == Len(pending') < Len(pending)

\* C2: every workflow action leaves the alert's timeline in the store equal
\* to its timeline in the store just before the update, with exactly one
\* new event appended.
C2_TimelineAppendOnly ==
    [][UpdateStep =>
        \A i \in 1..Len(alerts) :
            alerts[i].id = Head(pending).alert.id =>
                /\ Len(alerts'[i].timeline) = Len(alerts[i].timeline) + 1
                /\ SubSeq(alerts'[i].timeline, 1, Len(alerts[i].timeline)) = alerts[i].timeline
    ]_vars

\* C3: once an alert in the store is Dismissed or Resolved, no action taken
\* in the detail modal changes its status or its timeline.
C3_TerminalIsFinal ==
    [][UpdateStep =>
        \A i \in 1..Len(alerts) :
            alerts[i].status \in {"Dismissed", "Resolved"} =>
                /\ alerts'[i].status = alerts[i].status
                /\ alerts'[i].timeline = alerts[i].timeline
    ]_vars

\* the workflow of the documentation: the statuses an action may start from
LegalFrom(newStatus) ==
    CASE newStatus = "In Review" -> {"New"}
      [] newStatus = "Escalated" -> {"New", "In Review"}
      [] OTHER -> {"New", "In Review", "Escalated"}

\* C4: every status change applied to a stored alert is a legal transition
\* from the status the alert has in the store when the update is applied.
C4_LegalTransitions ==
    [][UpdateStep =>
        \A i \in 1..Len(alerts) :
            alerts[i].id = Head(pending).alert.id =>
                alerts[i].status \in LegalFrom(Head(pending).newStatus)
    ]_vars

\* C5: at no time are two executions of fetchRealData in flight together.
C5_CyclesSerialized == Len(cycles) <= 1

(***************************************************************************)
(* The rule engine's claims, under SpecEngine                              *)
(***************************************************************************)

\* the baseline of the claims, as the fraction BaselineNum/BaselineDen
BaselineNum(s) ==
    IF engIntraday[s.symbol] = <<>> THEN s.volume ELSE SumVolumes(engIntraday[s.symbol])

BaselineDen(s) ==
    IF engIntraday[s.symbol] = <<>> THEN 1 ELSE Len(engIntraday[s.symbol])

ClaimedVolumeSeverity(s) ==
    LET gain == s.volume * BaselineDen(s) - BaselineNum(s)
    IN  IF gain > 3 * BaselineNum(s) THEN "Critical"
        ELSE IF gain > 2 * BaselineNum(s) THEN "High"
        ELSE "Medium"

\* C7 as stated: for every snapshot and history of non-negative volumes the
\* engine returns exactly one Volume-spike alert when volume > 2 x baseline,
\* with the claimed severity, and none when volume <= 2 x baseline.
C7_VolumeSpikeAnyBaseline ==
    engDone =>
        \A i \in 1..Len(engStock) :
            LET s == engStock[i]
                hits == RuleAlerts(engOut, s.symbol, "Volume")
            IN  IF s.volume * BaselineDen(s) > 2 * BaselineNum(s)
                THEN /\ Cardinality(hits) = 1
                     /\ SeverityOf(engOut, s.symbol, "Volume") = ClaimedVolumeSeverity(s)
                ELSE hits = {}

\* C7 amended: the engine returns exactly one Volume-spike alert when the
\* baseline is positive and volume > 2 x baseline, with severity Critical if
\* increase% > 300, High if > 200, else Medium, and none otherwise; a
\* baseline of zero (a history whose volumes are all zero) never fires.
C7_VolumeSpike ==
    engDone =>
        \A i \in 1..Len(engStock) :
            LET s == engStock[i]
                hits == RuleAlerts(engOut, s.symbol, "Volume")
            IN  IF BaselineNum(s) > 0 /\ s.volume * BaselineDen(s) > 2 * BaselineNum(s)
                THEN /\ Cardinality(hits) = 1
                     /\ SeverityOf(engOut, s.symbol, "Volume") = ClaimedVolumeSeverity(s)
                ELSE hits = {}

\* the spec's example: volume 3,000,000 against a history averaging 900,000 is High
C7_Witness ==
    /\ engDone
    /\ engStock[1].volume = 3000000
    /\ Len(engIntraday["AAPL"]) = 2
    /\ SumVolumes(engIntraday["AAPL"]) = 1800000
    /\ Cardinality(RuleAlerts(engOut, "AAPL", "Volume")) = 1
    /\ SeverityOf(engOut, "AAPL", "Volume") = "High"

\* C8: a Momentum alert is returned iff the history has at least 2 points and
\* the percent change between its last two points exceeds 5 in absolute
\* value; it is Critical iff the signed change is > 5 and High otherwise.
C8_Momentum ==
    engDone =>
        \A i \in 1..Len(engStock) :
            LET s == engStock[i]
                h == engIntraday[s.symbol]
                hits == RuleAlerts(engOut, s.symbol, "Momentum")
                latest == h[Len(h)].price
                prior == h[Len(h) - 1].price
            IN  IF Len(h) >= 2 /\ Abs(latest - prior) * 100 > 5 * prior
                THEN /\ Cardinality(hits) = 1
                     /\ SeverityOf(engOut, s.symbol, "Momentum") =
                            IF (latest - prior) * 100 > 5 * prior THEN "Critical" ELSE "High"
                ELSE hits = {}

\* a fall of more than 5% between the last two of three points yields High
C8_Witness ==
    /\ engDone
    /\ Len(engIntraday["AAPL"]) = 3
    /\ engIntraday["AAPL"][2].price = 10000
    /\ engIntraday["AAPL"][3].price = 9499
    /\ Cardinality(RuleAlerts(engOut, "AAPL", "Momentum")) = 1
    /\ SeverityOf(engOut, "AAPL", "Momentum") = "High"

\* C9: the Rapid-change rule fires iff the previous-snapshot map holds the
\* symbol and |changePercent| > 3, never without a previous snapshot; it is
\* Critical if |changePercent| > 5 and High otherwise.
C9_RapidChange ==
    engDone =>
        \A i \in 1..Len(engStock) :
            LET s == engStock[i]
                hits == RuleAlerts(engOut, s.symbol, "Rapid")
            IN  IF engPrev[s.symbol] # NoSnapshot /\ Abs(s.changePercent) > 300
                THEN /\ Cardinality(hits) = 1
                     /\ SeverityOf(engOut, s.symbol, "Rapid") =
                            IF Abs(s.changePercent) > 500 THEN "Critical" ELSE "High"
                ELSE hits = {}

\* a fall of 5.01% with a previous snapshot fires as Critical
C9_Witness ==
    /\ engDone
    /\ engPrev["AAPL"] # NoSnapshot
    /\ engStock[1].changePercent = -501
    /\ Cardinality(RuleAlerts(engOut, "AAPL", "Rapid")) = 1
    /\ SeverityOf(engOut, "AAPL", "Rapid") = "Critical"

\* C10: the After-hours rule fires iff the wall-clock hour is < 9 or >= 16
\* and volume > 1,000,000; when it fires the severity is High.
C10_AfterHours ==
    engDone =>
        \A i \in 1..Len(engStock) :
            LET s == engStock[i]
                hits == RuleAlerts(engOut, s.symbol, "AfterHours")
            IN  IF (engHour < 9 \/ engHour >= 16) /\ s.volume > 1000000
                THEN /\ Cardinality(hits) = 1
                     /\ SeverityOf(engOut, s.symbol, "AfterHours") = "High"
                ELSE hits = {}

\* at 16 o'clock a volume of 1,000,001 fires
C10_Witness ==
    /\ engDone
    /\ engHour = 16
    /\ engStock[1].volume = 1000001
    /\ Cardinality(RuleAlerts(engOut, "AAPL", "AfterHours")) = 1

(***************************************************************************)
(* Status and timeline, under SpecWorkflow                                 *)
(***************************************************************************)

\* the action label that goes with a status
LabelOf(status) ==
    CASE status = "New" -> "Alert Created"
      [] status = "In Review" -> "Start Investigation"
      [] status = "Escalated" -> "Escalate"
      [] status = "Dismissed" -> "Dismiss"
      [] OTHER -> "Mark Resolved"

EngineGenerated(a) == a.rule # "Mock"

\* C11: in every reachable state the status of every engine-generated alert
\* in the store agrees with the action label of its last timeline event.
C11_StatusMatchesLastEvent ==
    \A i \in 1..Len(alerts) :
        EngineGenerated(alerts[i]) =>
            /\ Len(alerts[i].timeline) >= 1
            /\ alerts[i].timeline[Len(alerts[i].timeline)].action = LabelOf(alerts[i].status)

\* two actions have been applied in one modal session, the second built on
\* the alert object of the first click
C11_Witness ==
    /\ actionsLeft = 0
    /\ pending = <<>>
    /\ \E i \in 1..Len(alerts) :
          /\ EngineGenerated(alerts[i])
          /\ alerts[i].status = "Escalated"
          /\ Len(alerts[i].timeline) = 2
          /\ alerts[i].timeline[2].action = "Escalate"
          /\ alerts[i].investigationNotes = "reviewed"

(***************************************************************************)
(* The refresh routine's claims, under SpecRefresh                         *)
(***************************************************************************)

\* a step in which an execution of fetchRealData ends with its merge
MergeStep ==
    \E k \in 1..Len(cycles) :
        cycles[k].pc = "intraday" /\ cycles' = RemoveAt(cycles, k)

\* the alerts of `after` that `before` held, in the order of `after`
Surviving(before, after) ==
    SelectSeq(after, LAMBDA a : \E i \in 1..Len(before) : before[i] = a)

\* C12: the merge of a successful refresh cycle keeps every alert the store
\* held, unchanged and in the same relative order; alerts are only added.
C12_MergeKeepsStore ==
    [][MergeStep => Surviving(alerts, alerts') = alerts]_vars

\* the store holds alerts of two engine calls: the second merge met a
\* store that was not empty and added to it
C12_Witness ==
    /\ cycles = <<>>
    /\ \E i, j \in 1..Len(alerts) :
          /\ EngineGenerated(alerts[i])
          /\ EngineGenerated(alerts[j])
          /\ alerts[i].id[1] < alerts[j].id[1]

\* a step in which fetchMultipleStocks returns no snapshot at all and the
\* execution of fetchRealData ends
FallbackStep ==
    /\ Len(cycles') < Len(cycles)
    /\ \E k \in 1..Len(cycles) :
          /\ cycles[k].pc = "quote"
          /\ cycles' = RemoveAt(cycles, k)

\* C13: when the fetcher returns no snapshot in a cycle, the store becomes
\* the placeholder alert set (no alert of the rule engine is in it), the
\* real-data flag and the refreshing flag are cleared, and the
\* previous-snapshot and interval-history maps are left as they were.
C13_Fallback ==
    [][FallbackStep =>
        /\ alerts' = generateMockAlerts
        /\ \A i \in 1..Len(alerts') : ~EngineGenerated(alerts'[i])
        /\ isUsingRealData' = FALSE
        /\ isRefreshing' = FALSE
        /\ previousDataRef' = previousDataRef
        /\ intradayDataRef' = intradayDataRef
    ]_vars

\* a cycle fell back after an earlier cycle had succeeded: the store is the
\* placeholder set while the maps still hold what the earlier cycle wrote
C13_Witness ==
    /\ apiKey # ""
    /\ cycles = <<>>
    /\ alerts = generateMockAlerts
    /\ ~isUsingRealData
    /\ ~isRefreshing
    /\ previousDataRef # EmptyPrevious
    /\ intradayDataRef # EmptyIntraday

(***************************************************************************)
(* The dashboard metrics (the useMemo over the alert collection).          *)
(* Timestamps are counted in half minutes, so a duration of d is d/2       *)
(* minutes; the false-positive rate is counted in tenths of a percent.     *)
(* A metric is <<>> when the code yields null and <<v>> otherwise.         *)
(***************************************************************************)

CountStatus(list, statuses) ==
    Cardinality({i \in 1..Len(list) : list[i].status \in statuses})

\* the earlier formula: dismissed over all alerts, whole percent, 0 for none
falsePositiveRateOverTotal(list) ==
    LET totalAlerts == Len(list)
        dismissed == CountStatus(list, {"Dismissed"})
    IN  IF totalAlerts > 0
        THEN << 10 * ((2 * 100 * dismissed + totalAlerts) \div (2 * totalAlerts)) >>
        ELSE << 0 >>

\* parseFloat(((dismissed / processed) * 100).toFixed(1)), in tenths;
\* toFixed takes the nearest tenth, the larger one on a tie
falsePositiveRate(list) ==
    LET processed == CountStatus(list, {"In Review", "Escalated", "Dismissed", "Resolved"})
        dismissed == CountStatus(list, {"Dismissed"})
    IN  IF processed > 0
        THEN << (2 * 1000 * dismissed + processed) \div (2 * processed) >>
        ELSE <<>>

\* timeline.find(event => action is 'Resolved' or 'Mark Resolved'): its
\* index, 0 when there is none
RECURSIVE FindResolution(_, _)
FindResolution(timeline, from) ==
    IF from > Len(timeline) THEN 0
    ELSE IF timeline[from].action \in {"Resolved", "Mark Resolved"} THEN from
    ELSE FindResolution(timeline, from + 1)

\* the reduce callback: what one resolved alert adds to the sum, in half minutes
InvestigationTime(alert) ==
    LET r == FindResolution(alert.timeline, 1)
    IN  IF r > 0 THEN alert.timeline[r].timestamp - alert.timestamp
        ELSE IF Len(alert.timeline) > 0
             THEN alert.timeline[Len(alert.timeline)].timestamp - alert.timestamp
             ELSE 0

RECURSIVE SumInvestigationTime(_)
SumInvestigationTime(list) ==
    IF list = <<>> THEN 0
    ELSE (IF Head(list).status = "Resolved" THEN InvestigationTime(Head(list)) ELSE 0)
         + SumInvestigationTime(Tail(list))

\* the earlier formula: Resolved, Dismissed and Escalated alerts, first to
\* last timeline event, whole hours, 0 for none
RECURSIVE SumTimelineSpan(_)
SumTimelineSpan(list) ==
    IF list = <<>> THEN 0
    ELSE (IF /\ Head(list).status \in {"Resolved", "Dismissed", "Escalated"}
             /\ Len(Head(list).timeline) > 1
          THEN Head(list).timeline[Len(Head(list).timeline)].timestamp
               - Head(list).timeline[1].timestamp
          ELSE 0)
         + SumTimelineSpan(Tail(list))

avgInvestigationTimeInHours(list) ==
    LET investigated == CountStatus(list, {"Resolved", "Dismissed", "Escalated"})
    IN  IF investigated > 0
        THEN << (SumTimelineSpan(list) + 60 * investigated) \div (120 * investigated) >>
        ELSE << 0 >>

\* Math.round(sum of minutes / resolvedAlerts.length): Math.round takes the
\* nearest integer, the larger one on a tie
avgInvestigationTime(list) ==
    LET resolved == CountStatus(list, {"Resolved"})
    IN  IF resolved > 0
        THEN << (SumInvestigationTime(list) + resolved) \div (2 * resolved) >>
        ELSE <<>>

metrics(list) ==
    [ totalAlerts |-> Len(list),
      pendingReview |-> CountStatus(list, {"New", "In Review"}),
      falsePositiveRate |-> falsePositiveRate(list),
      avgInvestigationTime |-> avgInvestigationTime(list) ]

\* the alerts the metrics are evaluated on: one of each status as the
\* workflow leaves it, resolved alerts of several investigation times,
\* and resolved alerts whose timeline carries other labels
MetEvent(action, t) == [action |-> action, timestamp |-> t]

MetAlert(status, created, timeline) ==
    [status |-> status, timestamp |-> created, timeline |-> timeline]

MetShapes ==
    { MetAlert("New", 0, <<MetEvent("Alert Created", 0)>>),
      MetAlert("In Review", 0, <<MetEvent("Alert Created", 0), MetEvent("Start Investigation", 3)>>),
      MetAlert("Escalated", 0, <<MetEvent("Alert Created", 0), MetEvent("Escalate", 240)>>),
      MetAlert("Dismissed", 0, <<MetEvent("Alert Created", 0), MetEvent("Dismiss", 5)>>),
      MetAlert("Resolved", 0, <<MetEvent("Alert Created", 0), MetEvent("Mark Resolved", 90)>>),
      MetAlert("Resolved", 4, <<MetEvent("Alert Created", 4), MetEvent("Mark Resolved", 7)>>),
      MetAlert("Resolved", 0, <<MetEvent("Alert Created", 0), MetEvent("Resolved", 2),
                                MetEvent("Case Closed", 10)>>),
      MetAlert("Resolved", 0, <<MetEvent("Alert Created", 0), MetEvent("Investigation Started", 2),
                                MetEvent("Case Closed", 6)>>) }

MetInputs == UNION {[1..n -> MetShapes] : n \in 0..MaxMetAlerts}

InitMetrics ==
    /\ AppIdle
    /\ RateIdle
    /\ EngIdle
    /\ HistIdle
    /\ ViewIdle
    /\ metAlerts \in MetInputs
    /\ metOut = [totalAlerts |-> 0, pendingReview |-> 0,
                 falsePositiveRate |-> <<>>, avgInvestigationTime |-> <<>>]
    /\ metDone = FALSE

EvaluateMetrics ==
    /\ ~metDone
    /\ metOut' = metrics(metAlerts)
    /\ metDone' = TRUE
    /\ UNCHANGED <<appVars, rateVars, engVars, histVars, viewVars, metAlerts>>

NextMetrics == EvaluateMetrics

SpecMetrics == InitMetrics /\ [][NextMetrics]_vars

(***************************************************************************)
(* The metrics' claims, under SpecMetrics                                  *)
(***************************************************************************)

Processed == {i \in 1..Len(metAlerts) : metAlerts[i].status # "New"}

Dismissed == {i \in 1..Len(metAlerts) : metAlerts[i].status = "Dismissed"}

C14_WitnessNull ==
    /\ metDone
    /\ Len(metAlerts) = 2
    /\ Processed = {}
    /\ metOut.falsePositiveRate = <<>>

Resolved == {i \in 1..Len(metAlerts) : metAlerts[i].status = "Resolved"}

\* the investigation time of the claim, in half minutes: from the creation
\* timestamp to the first event labelled 'Resolved' or 'Mark Resolved',
\* or to the last event when no event is so labelled
ClaimedInvestigationTime(a) ==
    LET hits == {k \in 1..Len(a.timeline) : a.timeline[k].action \in {"Resolved", "Mark Resolved"}}
        k == IF hits # {} THEN CHOOSE h \in hits : \A g \in hits : h <= g
             ELSE Len(a.timeline)
    IN  a.timeline[k].timestamp - a.timestamp

RECURSIVE SumOver(_)
SumOver(indices) ==
    IF indices = {} THEN 0
    ELSE LET i == CHOOSE x \in indices : TRUE
         IN  ClaimedInvestigationTime(metAlerts[i]) + SumOver(indices \ {i})

SpecClock == EngInit /\ [][EngineCall]_vars

\* what a second call with the same three arguments returns when the clock
\* reads hour h and millisecond n
SecondCall(h, n) ==
    generateAlertsFromStockData(engStock, engPrev, engIntraday, h, n)

\* the clock of a second call: a millisecond later
LaterReading == engNow + 1

WithoutIds(out) == [i \in 1..Len(out) |-> [out[i] EXCEPT !.id = <<0, out[i].symbol>>]]

WithoutAfterHours(out) == SelectSeq(out, LAMBDA a : a.rule # "AfterHours")

OutsideMarketHours(h) == h < 9 \/ h >= 16

\* C16, amended: the result depends on the three arguments and on the wall
\* clock only, and on the clock in two places.  Two calls with equal
\* arguments return the same alerts apart from the identifiers when both
\* run inside market hours or both outside, equal identifiers too when the
\* clock reads the same millisecond, and always the same alerts of the
\* three rules other than the after-hours rule, apart from the identifiers.
SameButForClock ==
    LET first == WithoutIds(engOut) IN
    \A h \in EngHours :
        LET later == WithoutIds(SecondCall(h, LaterReading)) IN
        IF OutsideMarketHours(h) <=> OutsideMarketHours(engHour)
        THEN /\ later = first
             /\ h # engHour => SecondCall(h, engNow) = engOut
        ELSE WithoutAfterHours(later) = WithoutAfterHours(first)

EndingCycle(k) ==
    /\ cycles[k].pc = "intraday"
    /\ cycles' = RemoveAt(cycles, k)

\* C17 as stated: the engine evaluates the cycle against the contents both
\* maps had before the cycle, and the refresh routine writes the fetched
\* values into both maps only after the engine call.
C17_MapsWrittenAfter ==
    [][\A k \in 1..Len(cycles) :
          EndingCycle(k) =>
              /\ alerts' = MergeAlerts(alerts,
                              generateAlertsFromStockData(cycles[k].results, previousDataRef,
                                                          intradayDataRef, hour, now))
              /\ previousDataRef' = UpdatePrevious(previousDataRef, cycles[k].results)
    ]_vars

\* C17, amended: the refresh routine writes the fetched interval history
\* of the first snapshot's symbol into the interval-history map before the
\* engine call, so the engine evaluates the cycle against that fresh
\* history; it writes the snapshots into the previous-snapshot map only
\* after the engine call, so the engine evaluates the cycle against the
\* previous snapshots the cycle before left.  No other entry of either map
\* changes.
C17_HistoryWrittenBefore ==
    [][\A k \in 1..Len(cycles) :
          EndingCycle(k) =>
              LET results == cycles[k].results
                  fetched == {results[j].symbol : j \in 1..Len(results)}
              IN  /\ alerts' = MergeAlerts(alerts,
                                  generateAlertsFromStockData(results, previousDataRef,
                                                              intradayDataRef', hour, now))
                  /\ \A sym \in Symbols :
                        /\ sym # results[1].symbol => intradayDataRef'[sym] = intradayDataRef[sym]
                        /\ sym \notin fetched => previousDataRef'[sym] = previousDataRef[sym]
                  /\ \A j \in 1..Len(results) :
                        previousDataRef'[results[j].symbol] = results[j]
    ]_vars

\* the only cycle so far has ended with a momentum alert: the engine read
\* the interval history this very cycle fetched
C17_Witness ==
    /\ cycles = <<>>
    /\ budget = MaxCycles - 1
    /\ intradayDataRef # EmptyIntraday
    /\ \E i \in 1..Len(alerts) : alerts[i].rule = "Momentum"

(***************************************************************************)
(* fetchMultipleStocks, as the refresh routine runs it, under SpecRefresh  *)
(***************************************************************************)

\* the requested symbols whose request was answered with a snapshot, in
\* request order
RECURSIVE Succeeded(_, _)
Succeeded(answers, j) ==
    IF j > Len(answers) THEN <<>>
    ELSE (IF answers[j] THEN <<WatchList[j]>> ELSE <<>>) \o Succeeded(answers, j + 1)

SymbolsOf(results) == [j \in 1..Len(results) |-> results[j].symbol]

\* the loop of one call: request i goes out when requests 1..i-1 have been
\* answered, and the results are the snapshots of the answered symbols
LoopInOrder(c) ==
    /\ Len(c.answers) = IF c.pc = "quote" THEN c.i - 1 ELSE Len(WatchList)
    /\ SymbolsOf(c.results) = Succeeded(c.answers, 1)

\* C18: fetchMultipleStocks returns exactly the snapshots of the requested
\* symbols whose request succeeded, in request order; a failed request
\* neither fails the call nor drops another symbol's snapshot (the call
\* returns nothing only when every request failed), and the requests go out
\* strictly one after another.
C18_FetchMultipleStocks ==
    /\ \A k \in 1..Len(cycles) : LoopInOrder(cycles[k])
    /\ [][/\ \A k \in 1..Len(cycles') : LoopInOrder(cycles'[k])
          /\ FallbackStep =>
                \E k \in 1..Len(cycles) :
                    /\ cycles[k].pc = "quote"
                    /\ cycles[k].i = Len(WatchList)
                    /\ cycles' = RemoveAt(cycles, k)
                    /\ \A j \in 1..Len(cycles[k].answers) : ~cycles[k].answers[j]
       ]_vars

\* the first request failed and a later one succeeded: the call returned
\* the later symbol's snapshot alone
C18_Witness ==
    \E k \in 1..Len(cycles) :
        /\ cycles[k].pc = "intraday"
        /\ ~cycles[k].answers[1]
        /\ Len(cycles[k].results) >= 1
        /\ cycles[k].results[1].symbol # WatchList[1]

(***************************************************************************)
(* services/alphaVantage.ts fetchIntradayData: an isolated call on what    *)
(* the provider answered.  A series is the sequence of the entries of      *)
(* 'Time Series (15min)' in the order of the keys of the parsed object,    *)
(* which is the order in which the provider wrote them; the keys are date  *)
(* strings, here the number of the 15-minute interval (1 is the oldest).   *)
(***************************************************************************)
SliceLimit == 10    \* slice(0, 10)

PayloadKinds == {"series", "error", "note", "missing", "throw"}

\* one entry of the series: key and the fields '4. close' and '5. volume'
SeriesEntry(t, rising, heavy) ==
    [ key |-> t,
      close |-> IF rising THEN 10000 + 100 * t ELSE 10000,
      volume |-> IF heavy THEN 900000 ELSE 1000 * t ]

\* the provider writes the newest interval first; a series written oldest
\* first is drawn as well, since the code does not look at the keys
ProviderSeries ==
    { [i \in 1..n |-> SeriesEntry(IF newestFirst THEN n + 1 - i ELSE i, rising, heavy)] :
        n \in 0..MaxSeries, newestFirst \in BOOLEAN, rising \in BOOLEAN, heavy \in BOOLEAN }

Payloads ==
    { [kind |-> "series", series |-> sr] : sr \in ProviderSeries }
    \cup { [kind |-> kd, series |-> <<>>] : kd \in PayloadKinds \ {"series"} }

\* lines 206-227: [] for an error payload, a note, a missing series or a
\* thrown error; otherwise the first ten entries, each mapped to a point
fetchIntradayData(payload) ==
    IF payload.kind # "series" THEN <<>>
    ELSE LET entries == SubSeq(payload.series, 1,
                               IF Len(payload.series) < SliceLimit
                               THEN Len(payload.series) ELSE SliceLimit)
         IN  [i \in 1..Len(entries) |->
                [ price |-> entries[i].close,
                  volume |-> entries[i].volume,
                  timestamp |-> entries[i].key ]]

InitHistory ==
    /\ AppIdle
    /\ RateIdle
    /\ EngIdle
    /\ MetIdle
    /\ ViewIdle
    /\ histPayload \in Payloads
    /\ histOut = <<>>
    /\ histDone = FALSE

FetchHistory ==
    /\ ~histDone
    /\ histOut' = fetchIntradayData(histPayload)
    /\ histDone' = TRUE
    /\ UNCHANGED <<appVars, rateVars, engVars, metVars, viewVars, histPayload>>

NextHistory == FetchHistory

SpecHistory == InitHistory /\ [][NextHistory]_vars

\* the keys of the most recent `n` entries of a series
MostRecentKeys(series, n) ==
    {series[i].key : i \in {j \in 1..Len(series) :
        Cardinality({m \in 1..Len(series) : series[m].key > series[j].key}) < n}}

\* C19: fetchIntradayData returns at most 10 points, the 10 most recent
\* points of the provider's series ordered oldest first, and the empty
\* sequence on an error payload, a rate-limit notice, a missing series or
\* a thrown error.
C19_TenMostRecentOldestFirst ==
    histDone =>
        IF histPayload.kind # "series" THEN histOut = <<>>
        ELSE /\ Len(histOut) <= SliceLimit
             /\ {histOut[i].timestamp : i \in 1..Len(histOut)}
                   = MostRecentKeys(histPayload.series, SliceLimit)
             /\ \A i, j \in 1..Len(histOut) :
                   i < j => histOut[i].timestamp < histOut[j].timestamp

\* the snapshot an alert was built from
SnapshotOf(a) ==
    engStock[CHOOSE j \in 1..Len(engStock) : engStock[j].symbol = a.symbol]

\* C20: every alert generateAlertsFromStockData returns has status New,
\* empty investigation notes and a timeline of exactly one event, 'Alert
\* Created' by 'Automated System'; the alert and the event carry the
\* snapshot's timestamp.
C20_FreshAlert ==
    engDone =>
        \A i \in 1..Len(engOut) :
            LET a == engOut[i] IN
            /\ a.status = "New"
            /\ a.investigationNotes = ""
            /\ Len(a.timeline) = 1
            /\ a.timeline[1].action = "Alert Created"
            /\ a.timeline[1].user = "Automated System"
            /\ a.timestamp = SnapshotOf(a).timestamp
            /\ a.timeline[1].timestamp = SnapshotOf(a).timestamp

\* a call in which all four rules fired
C20_Witness ==
    /\ engDone
    /\ Len(engOut) = 4
    /\ engNow # engStock[1].timestamp

(***************************************************************************)
(* The category of an engine alert, under SpecEngine                       *)
(***************************************************************************)

\* C21: every alert the engine returns carries a category of the closed
\* five-value taxonomy, and that category is Market Manipulation for all
\* four rules: the volume rule's Unusual Activity and the after-hours
\* rule's Suspicious Trading Pattern are remapped at construction.
C21_CategoryInTaxonomy ==
    engDone =>
        \A i \in 1..Len(engOut) :
            /\ engOut[i].type \in AlertTypes
            /\ engOut[i].type = "Market Manipulation"

\* a call that returned an alert of each of the four rules
C21_Witness ==
    /\ engDone
    /\ \A r \in {"Momentum", "Volume", "AfterHours", "Rapid"} :
          \E i \in 1..Len(engOut) :
              engOut[i].rule = r /\ engOut[i].type = "Market Manipulation"

(***************************************************************************)
(* A symbol without history and without previous snapshot, under SpecEngine *)
(***************************************************************************)

\* the map lookups of lines 20-21 find nothing for the snapshot's symbol:
\* `intradayDataMap.get(symbol) || []` is the empty history
NothingKnown(s) ==
    /\ engIntraday[s.symbol] = <<>>
    /\ engPrev[s.symbol] = NoSnapshot

\* C22: for a snapshot whose symbol has no history and no previous
\* snapshot the engine returns no Momentum alert, no Rapid-change alert and
\* no Volume-spike alert (the baseline is the snapshot's own volume), so it
\* returns at most one alert for it, the After-hours alert; the call
\* returns a value on these inputs.
C22_NothingKnown ==
    engDone =>
        \A i \in 1..Len(engStock) :
            LET s == engStock[i] IN
            NothingKnown(s) =>
                /\ RuleAlerts(engOut, s.symbol, "Momentum") = {}
                /\ RuleAlerts(engOut, s.symbol, "Rapid") = {}
                /\ RuleAlerts(engOut, s.symbol, "Volume") = {}
                /\ Cardinality({j \in 1..Len(engOut) : engOut[j].symbol = s.symbol}) <= 1
                /\ \A j \in 1..Len(engOut) :
                      engOut[j].symbol = s.symbol => engOut[j].rule = "AfterHours"

\* 3,600,001 shares and a change of 5.01 % at 16 h, nothing known of the
\* symbol: the after-hours alert alone
C22_Witness ==
    /\ engDone
    /\ NothingKnown(engStock[1])
    /\ engStock[1].volume = 3600001
    /\ engStock[1].changePercent = 501
    /\ engHour = 16
    /\ Len(engOut) = 1
    /\ engOut[1].rule = "AfterHours"

(***************************************************************************)
(* The engine called on several snapshots at once, under SpecBatch         *)
(***************************************************************************)
BatchSymbols == {"AAPL", "TSLA"}

\* volumes on either side of 1,000,000 and of twice 900,000, changes on
\* either side of 3 %
BatchSnapshots ==
    {[symbol |-> sym, price |-> 10000, volume |-> v, changePercent |-> c, timestamp |-> 1] :
        sym \in BatchSymbols, v \in {900000, 2000000}, c \in {300, 301}}

\* no history, a history rising by more than 5 %, a flat history
BatchHistories ==
    IntradayChoices \cup
    { << [price |-> 10000, volume |-> 900000], [price |-> 10000, volume |-> 900000] >> }

Batches == UNION {[1..n -> BatchSnapshots] : n \in 0..MaxBatch}

InitBatch ==
    /\ AppIdle
    /\ RateIdle
    /\ PureIdle
    /\ engStock = <<>>
    /\ \E known \in SUBSET BatchSymbols :
          engPrev = [s \in Symbols |->
                        IF s \in known THEN EarlierSnapshot(s) ELSE NoSnapshot]
    /\ \E h \in [BatchSymbols -> BatchHistories] :
          engIntraday = [s \in Symbols |-> IF s \in BatchSymbols THEN h[s] ELSE <<>>]
    /\ engHour \in {15, 16}
    /\ engNow = 2
    /\ engOut = <<>>
    /\ engDone = FALSE

\* one call of generateAlertsFromStockData on a sequence of snapshots
EngineCallBatch ==
    /\ ~engDone
    /\ \E stock \in Batches :
          /\ engStock' = stock
          /\ engOut' = generateAlertsFromStockData(stock, engPrev, engIntraday, engHour, engNow)
    /\ engDone' = TRUE
    /\ UNCHANGED <<appVars, rateVars, pureVars, engPrev, engIntraday, engHour, engNow>>

NextBatch == EngineCallBatch

SpecBatch == InitBatch /\ [][NextBatch]_vars

\* the order of the four `if` statements in the forEach body
RuleOrder == <<"Momentum", "Volume", "AfterHours", "Rapid">>

\* the condition of each rule for snapshot s, read off the call's arguments
RuleHolds(s, r) ==
    LET h == engIntraday[s.symbol]
        n == Len(h)
    IN  CASE r = "Momentum" ->
                 /\ n >= 2
                 /\ Abs((h[n].price - h[n - 1].price) * 100) > 5 * h[n - 1].price
          [] r = "Volume" ->
                 /\ BaselineNum(s) > 0
                 /\ s.volume * BaselineDen(s) > 2 * BaselineNum(s)
          [] r = "AfterHours" ->
                 /\ OutsideMarketHours(engHour)
                 /\ s.volume > 1000000
          [] r = "Rapid" ->
                 /\ engPrev[s.symbol] # NoSnapshot
                 /\ Abs(s.changePercent) > 300

\* symbol and rule of the alerts the claim expects, in the claimed order
RECURSIVE ExpectedAlerts(_)
ExpectedAlerts(stock) ==
    IF stock = <<>> THEN <<>>
    ELSE LET s == Head(stock)
             rules == SelectSeq(RuleOrder, LAMBDA r : RuleHolds(s, r))
         IN  [k \in 1..Len(rules) |-> <<s.symbol, rules[k]>>]
             \o ExpectedAlerts(Tail(stock))

\* C23: the four rules are evaluated independently for each snapshot.  The
\* engine returns, snapshot by snapshot in the order of the input, one
\* alert for each rule whose own condition holds for the snapshot and no
\* other alert, in the rule order Momentum, Volume-spike, After-hours,
\* Rapid-change; so a snapshot yields as many alerts as rules hold for it,
\* 0 to 4, and no rule's firing suppresses or triggers another.
C23_RulesIndependent ==
    engDone =>
        [i \in 1..Len(engOut) |-> <<engOut[i].symbol, engOut[i].rule>>]
            = ExpectedAlerts(engStock)

\* TSLA before AAPL: all four rules fire for TSLA, the after-hours rule
\* and the rapid-change rule for AAPL, six alerts in that order
C23_Witness ==
    /\ engDone
    /\ Len(engStock) = 2
    /\ engStock[1].symbol = "TSLA"
    /\ engStock[2].symbol = "AAPL"
    /\ [i \in 1..Len(engOut) |-> <<engOut[i].symbol, engOut[i].rule>>]
          = << <<"TSLA", "Momentum">>, <<"TSLA", "Volume">>, <<"TSLA", "AfterHours">>,
               <<"TSLA", "Rapid">>, <<"AAPL", "AfterHours">>, <<"AAPL", "Rapid">> >>

(***************************************************************************)
(* The closing of the detail view, under SpecClose                         *)
(***************************************************************************)

\* the detail modal over a store that the first cycle filled from the
\* snapshot of the first symbol alone
InitClose ==
    /\ InitWorkflow
    /\ \A i \in 1..Len(alerts) : alerts[i].symbol = WatchList[1]
    /\ alerts # <<>>

\* the browser runs every timer callback that is due: the 800 ms await of
\* handleAction and the 500 ms close timer
SpecClose ==
    /\ InitClose
    /\ [][NextWorkflow]_vars
    /\ WF_vars(handleActionComplete)
    /\ WF_vars(CloseTimerFire)

\* handleAction of the oldest click runs from its await to its end in this step
CompletionStep ==
    /\ pending # <<>>
    /\ pending' = Tail(pending)

\* C24: an action that moves an alert to Resolved or Dismissed applies its
\* update and arms the close timer, and while a close timer is armed the
\* detail view is eventually closed; an action that moves the alert to
\* In Review or Escalated arms no timer and leaves the detail view as it is.
C24_TerminalCloses ==
    /\ [][CompletionStep =>
            LET p == Head(pending) IN
            IF p.newStatus \in {"Resolved", "Dismissed"}
            THEN /\ closeTimers' = closeTimers + 1
                 /\ \A i \in 1..Len(alerts) :
                       alerts[i].id = p.alert.id => alerts'[i].status = p.newStatus
            ELSE /\ closeTimers' = closeTimers
                 /\ selectedAlert' = selectedAlert
         ]_vars
    /\ (closeTimers > 0) ~> (selectedAlert = <<>>)

\* the detail view is still open on the alert while the close timer of its
\* own Dismiss action is armed
C24_Witness ==
    /\ closeTimers = 1
    /\ selectedAlert # <<>>
    /\ \E i \in 1..Len(alerts) :
          /\ alerts[i].id = selectedAlert[1].id
          /\ alerts[i].status = "Dismissed"

(***************************************************************************)
(* App.tsx filteredAndSortedAlerts and handleExport.  A text is the        *)
(* sequence of its characters.                                             *)
(***************************************************************************)

\* String.prototype.toLowerCase
LowerChar(c) ==
    CASE c = "A" -> "a"
      [] c = "I" -> "i"
      [] c = "K" -> "k"
      [] c = "L" -> "l"
      [] c = "T" -> "t"
      [] OTHER -> c

toLowerCase(text) == [i \in 1..Len(text) |-> LowerChar(text[i])]

\* String.prototype.includes
includes(text, part) ==
    \E i \in 0..(Len(text) - Len(part)) : SubSeq(text, i + 1, i + Len(part)) = part

\* lines 157-162
severityOrder(severity) ==
    CASE severity = "Critical" -> 4
      [] severity = "High" -> 3
      [] severity = "Medium" -> 2
      [] severity = "Low" -> 1

\* lines 140-148: the predicate of alerts.filter
matchesAll(alert, s) ==
    LET q == toLowerCase(s.searchQuery)
        matchesSearch == \/ includes(toLowerCase(alert.id), q)
                         \/ includes(toLowerCase(alert.traderName), q)
                         \/ includes(toLowerCase(alert.traderId), q)
        matchesSeverity == s.severityFilter = "All" \/ alert.severity = s.severityFilter
        matchesStatus == s.statusFilter = "All" \/ alert.status = s.statusFilter
    IN  matchesSearch /\ matchesSeverity /\ matchesStatus

\* a slip: the direction button without effect on the severity order
compareDescendingSeverity(a, b, s) ==
    IF s.sortBy = "time"
    THEN IF s.sortOrder = "asc" THEN a.timestamp - b.timestamp
                                ELSE b.timestamp - a.timestamp
    ELSE severityOrder(b.severity) - severityOrder(a.severity)

\* lines 151-167: the comparator handed to sort
compare(a, b, s) ==
    IF s.sortBy = "time"
    THEN IF s.sortOrder = "asc" THEN a.timestamp - b.timestamp
                                ELSE b.timestamp - a.timestamp
    ELSE IF s.sortOrder = "asc" THEN severityOrder(a.severity) - severityOrder(b.severity)
                                ELSE severityOrder(b.severity) - severityOrder(a.severity)

\* Array.prototype.sort is stable: an element goes behind those that
\* compare lower or equal
RECURSIVE InsertSorted(_, _, _)
InsertSorted(sorted, a, s) ==
    IF sorted = <<>> THEN <<a>>
    ELSE IF compare(Head(sorted), a, s) <= 0
         THEN <<Head(sorted)>> \o InsertSorted(Tail(sorted), a, s)
         ELSE <<a>> \o sorted

RECURSIVE SortView(_, _)
SortView(list, s) ==
    IF list = <<>> THEN <<>>
    ELSE InsertSorted(SortView(SubSeq(list, 1, Len(list) - 1), s), list[Len(list)], s)

\* lines 138-170
filteredAndSortedAlerts(all, s) ==
    SortView(SelectSeq(all, LAMBDA a : matchesAll(a, s)), s)

\* the store after the memo ran: filter built a new array and sort worked on
\* that array
StoreAfterView(all, s) == all

\* the alerts the view is computed from; the trader's name and id go with
\* the symbol of the alert
ViewShapes ==
    { [id |-> <<"A", "L", "T", "1">>, traderName |-> <<"K", "i", "m">>, traderId |-> <<"T", "1">>,
       severity |-> "Critical", status |-> "New", timestamp |-> 2],
      [id |-> <<"A", "L", "T", "2">>, traderName |-> <<"K", "i", "m">>, traderId |-> <<"T", "1">>,
       severity |-> "High", status |-> "Resolved", timestamp |-> 1],
      [id |-> <<"A", "L", "T", "3">>, traderName |-> <<"L", "i">>, traderId |-> <<"T", "2">>,
       severity |-> "Low", status |-> "New", timestamp |-> 3],
      [id |-> <<"A", "L", "T", "4">>, traderName |-> <<"L", "i">>, traderId |-> <<"T", "2">>,
       severity |-> "Critical", status |-> "Resolved", timestamp |-> 1],
      [id |-> <<"A", "L", "T", "5">>, traderName |-> <<"K", "i", "m">>, traderId |-> <<"T", "1">>,
       severity |-> "Medium", status |-> "New", timestamp |-> 2] }

ViewStores == UNION {[1..n -> ViewShapes] : n \in 0..MaxViewAlerts}

\* what the user can type and select: no query, part of a name in capitals,
\* a trader id, part of an alert id, a text nothing holds
ViewSettings ==
    [searchQuery : { <<>>, <<"K", "I">>, <<"t", "2">>, <<"l", "t", "3">>, <<"z">> },
     severityFilter : {"All", "Critical", "Low"},
     statusFilter : {"All", "New", "Resolved"},
     sortBy : {"time", "severity"},
     sortOrder : {"asc", "desc"}]

InitView ==
    /\ AppIdle
    /\ RateIdle
    /\ EngIdle
    /\ HistIdle
    /\ MetIdle
    /\ viewAlerts \in ViewStores
    /\ viewSettings = DefaultSettings
    /\ viewOut = <<>>
    /\ viewDone = FALSE

\* the user sets the search box, the two filters and the sort buttons, and
\* the render computes the view that the list shows and handleExport writes
ComputeView ==
    /\ ~viewDone
    /\ \E s \in ViewSettings :
          /\ viewSettings' = s
          /\ viewOut' = filteredAndSortedAlerts(viewAlerts, s)
          /\ viewAlerts' = StoreAfterView(viewAlerts, s)
    /\ viewDone' = TRUE
    /\ UNCHANGED <<appVars, rateVars, engVars, histVars, metVars>>

NextView == ComputeView

SpecView == InitView /\ [][NextView]_vars

(***************************************************************************)
(* The view's claim, under SpecView                                        *)
(***************************************************************************)

\* how often alert x occurs in a list
Occurrences(list, x) == Cardinality({i \in 1..Len(list) : list[i] = x})

\* the alert matches the query (a part, whatever the case, of its id, its
\* trader's name or its trader's id) and both filters
Shown(x, s) ==
    /\ \E text \in {x.id, x.traderName, x.traderId} :
          includes(toLowerCase(text), toLowerCase(s.searchQuery))
    /\ s.severityFilter \in {"All", x.severity}
    /\ s.statusFilter \in {"All", x.status}

SeverityRank(x) ==
    CASE x.severity = "Critical" -> 4 [] x.severity = "High" -> 3
      [] x.severity = "Medium" -> 2 [] x.severity = "Low" -> 1

\* x may stand before y under the active sort key and direction
InOrder(x, y, s) ==
    LET kx == IF s.sortBy = "time" THEN x.timestamp ELSE SeverityRank(x)
        ky == IF s.sortBy = "time" THEN y.timestamp ELSE SeverityRank(y)
    IN  IF s.sortOrder = "desc" THEN kx >= ky ELSE kx <= ky

\* C25: the view holds exactly the stored alerts that match the search
\* query and the severity filter and the status filter, 'All' matching
\* everything, ordered by the active sort key and direction (time: newest
\* first when descending; severity: Critical > High > Medium > Low when
\* descending); computing the view leaves the content and the order of the
\* store as they were.
C25_View ==
    [][(~viewDone /\ viewDone') =>
          /\ \A x \in ViewShapes :
                Occurrences(viewOut', x) =
                    IF Shown(x, viewSettings') THEN Occurrences(viewAlerts, x) ELSE 0
          /\ \A i, j \in 1..Len(viewOut') :
                i < j => InOrder(viewOut'[i], viewOut'[j], viewSettings')
          /\ viewAlerts' = viewAlerts
    ]_vars

\* three stored alerts, oldest first in the store; the query "KI" in
\* capitals and severity descending show the two alerts of trader Kim,
\* Critical before High
C25_Witness ==
    /\ viewDone
    /\ Len(viewAlerts) = 3
    /\ viewAlerts[1].severity = "High"
    /\ viewAlerts[2].severity = "Critical"
    /\ viewAlerts[3].traderName = <<"L", "i">>
    /\ viewSettings.searchQuery = <<"K", "I">>
    /\ viewSettings.sortBy = "severity"
    /\ viewSettings.sortOrder = "desc"
    /\ Len(viewOut) = 2
    /\ viewOut[1] = viewAlerts[2]
    /\ viewOut[2] = viewAlerts[1]

(***************************************************************************)
(* The reach of a workflow action, under SpecWorkflow                      *)
(***************************************************************************)

\* the entries of the store that this step changes
ChangedEntries == {i \in 1..Len(alerts) : alerts'[i] # alerts[i]}

\* C26: a workflow action on one alert changes only that alert: when
\* handleAction completes, at most one entry of the store changes, an entry
\* with the identifier of the alert the action was started on, and the
\* store keeps its length and the order of its alerts.
C26_OnlyThatAlert ==
    [][CompletionStep =>
          /\ Len(alerts') = Len(alerts)
          /\ \A i \in 1..Len(alerts) : alerts'[i].id = alerts[i].id
          /\ \A i \in ChangedEntries : alerts[i].id = Head(pending).alert.id
          /\ Cardinality(ChangedEntries) <= 1
    ]_vars

(***************************************************************************)
(* Removing the key while a cycle is in flight, under SpecRefresh          *)
(***************************************************************************)

\* C27: while the key is removed, no execution of fetchRealData that was
\* already in flight merges alerts into the store, sets the real-data flag
\* or writes into the previous-snapshot map or the interval-history map.
C27_RemovedKeyStopsCycles ==
    [][(apiKey = "" /\ \E k \in 1..Len(cycles) : EndingCycle(k)) =>
          /\ alerts' = alerts
          /\ isUsingRealData' = isUsingRealData
          /\ previousDataRef' = previousDataRef
          /\ intradayDataRef' = intradayDataRef
    ]_vars

(***************************************************************************)
(* A workflow action and a refresh cycle side by side, under Spec          *)
(***************************************************************************)

\* C28: a workflow action is never lost: when handleAction completes, the
\* store holds the alert the action was started on, with the new status
\* and with the event of the action at the end of its timeline, whatever
\* refresh cycle ended between the click and the completion.
C28_ActionNeverLost ==
    [][CompletionStep =>
          LET p == Head(pending) IN
          \E i \in 1..Len(alerts') :
              /\ alerts'[i].id = p.alert.id
              /\ alerts'[i].status = p.newStatus
              /\ alerts'[i].timeline[Len(alerts'[i].timeline)].action = p.actionName
    ]_vars

(***************************************************************************)
(* Whose interval history is stored, under SpecRefresh                     *)
(***************************************************************************)

\* the symbols whose entry of the interval-history map this step changes
HistoryChanged == {s \in Symbols : intradayDataRef'[s] # intradayDataRef[s]}

\* the Momentum alerts this step adds to the store
MomentumAdded ==
    {i \in 1..Len(alerts') :
        /\ alerts'[i].rule = "Momentum"
        /\ alerts'[i].id \notin {alerts[j].id : j \in 1..Len(alerts)}}

\* C29: a successful cycle stores interval history for the first returned
\* snapshot's symbol only, and only a history that is not empty: an empty
\* answer leaves the stored history in place and the entries of all other
\* symbols are unchanged.  No other step writes into the map except the
\* removal of the key, which clears it.  So every Momentum alert a cycle
\* adds is for a symbol with a stored history of at least two points, which
\* is the first returned symbol of this cycle or was stored by an earlier
\* one.
C29_HistoryOfFirstSymbol ==
    [][IF \E k \in 1..Len(cycles) : EndingCycle(k)
       THEN \A k \in 1..Len(cycles) :
                EndingCycle(k) =>
                    LET first == cycles[k].results[1].symbol IN
                    /\ \A s \in HistoryChanged :
                          s = first /\ intradayDataRef'[s] # <<>>
                    /\ \A i \in MomentumAdded :
                          LET s == alerts'[i].symbol IN
                          /\ Len(intradayDataRef'[s]) >= 2
                          /\ s = first \/ intradayDataRef'[s] = intradayDataRef[s]
       ELSE /\ MomentumAdded = {}
            /\ \/ HistoryChanged = {}
               \/ apiKey' = "" /\ intradayDataRef' = EmptyIntraday
    ]_vars

\* the AAPL quote failed, so TSLA was the first returned symbol: TSLA has
\* the history and the Momentum alert, AAPL has neither
C29_Witness ==
    /\ intradayDataRef["TSLA"] # <<>>
    /\ intradayDataRef["AAPL"] = <<>>
    /\ \E i \in 1..Len(alerts) : alerts[i].rule = "Momentum" /\ alerts[i].symbol = "TSLA"
    /\ \A i \in 1..Len(alerts) : alerts[i].rule = "Momentum" => alerts[i].symbol = "TSLA"

(***************************************************************************)
(* The refreshing flag, under SpecRefreshFair                              *)
(***************************************************************************)

\* every request to the quote provider is answered or fails, so the await
\* of a cycle in flight ends: a cycle at a quote request takes its
\* QuoteResponse step, a cycle at the interval-history request takes its
\* IntradayResponse step, the one step that removes such a cycle
SpecRefreshFair ==
    /\ SpecRefresh
    /\ WF_vars(\E k \in 1..Len(cycles) : QuoteResponse(k))
    /\ WF_cycles(\E k \in 1..Len(cycles) : EndingCycle(k))

\* an execution of fetchRealData ends in this step, with data or without
CycleEnds == Len(cycles') < Len(cycles)

\* C30: the refreshing flag is true in every state in which a refresh
\* cycle is in flight, and every started cycle eventually ends, with the
\* flag cleared at its end.
C30_RefreshingFlag ==
    /\ [](cycles # <<>> => isRefreshing)
    /\ [][CycleEnds => ~isRefreshing']_vars
    /\ (cycles # <<>>) ~> (cycles = <<>>)

====
